---- MODULE Spec2Model ----
(***************************************************************************)
(* A model of the snowflake id generator of src/src/lib.rs.                *)
(*                                                                         *)
(* One SnowflakeIdGenerator value {last_time_millis, machine_bits, idx},   *)
(* the system clock it reads through get_time_millis, and the public       *)
(* operations new_from_ip, generate, real_time_generate, lazy_generate,    *)
(* generate_with_unix and reverse.  The busy wait biding_time_conditions   *)
(* is a loop: a call that enters it stays in progress (pc = "biding")      *)
(* and each iteration of the loop is one step.                             *)
(*                                                                         *)
(* Integers: the code works on i64/u64.  Every value of the model stays    *)
(* far inside that range (timestamps are a few units, so packed ids are    *)
(* below 2^31), so no shift or addition of the model wraps.                *)
(***************************************************************************)
EXTENDS Integers, Sequences, FiniteSets, TLC

\* ------------------------------------------------------------------ bounds

\* The clock shows 0..MaxClock.
MaxClock == 1

\* lazy_generate is not called once it would push last_time_millis above
\* MaxTime.
MaxTime == 1

\* The number of clock readings of one call is counted up to MaxReads.
MaxReads == 3

\* The observer picks an id only while idx <= MaxObservedIdx.
MaxObservedIdx == 1

\* A counted burst of generate calls has SeqModulus + BurstSlack calls.
BurstSlack == 2

\* Each of two generators is called only while its idx < MaxPairIdx.
MaxPairIdx == 2

\* Calls of other strategies precede a counted run of lazy_generate only
\* while idx < MaxPrefix.
MaxPrefix == 2

\* A counted run of lazy_generate wraps idx MaxWraps times.
MaxWraps == 2

\* ------------------------------------------------------- program constants

\* (self.idx + 1) % 2048
SeqModulus == 2048

\* self.last_time_millis << 22
TimestampShift == 22

\* self.machine_bits << 12
MachineShift == 12

\* numerize(ip_split[2]) << 8
OctetShift == 8

\* ip_mask: u64 = 0x3FF000
ip_mask == 4190208

\* sequence_mask: u64 = 0x3FF
sequence_mask == 1023

\* timestamp_mask: u64 = 0x7FFFFFFFFFC00000 has bits 22..62 set: this is its
\* lowest set bit.
timestamp_mask_low == 22

\* ------------------------------------------------------------- bit algebra

\* Bitwise operators on two's-complement integers.  \div is floor division
\* and % is never negative, so a = w * (a \div w) + (a % w) splits any
\* integer, for w = 2^k, into its bits above and its k bits below; the
\* recursions end in 0 for a non-negative and in -1 for a negative number.
\* They go bit by bit, except that a block of 12, 8 or 4 low bits is taken
\* at once where the result in that block is one operand's block.

\* The low block of width w of a | b is b's where a's is zero, a's where
\* b's is zero.
OrBlock(a, b, w) == a % w = 0 \/ b % w = 0

\* a | b
RECURSIVE BitOr(_, _)
OrStep(a, b, w) == (a % w) + (b % w) + w * BitOr(a \div w, b \div w)

BitOr(a, b) ==
    IF a = 0 THEN b
    ELSE IF b = 0 THEN a
    ELSE IF a = -1 \/ b = -1 THEN -1
    ELSE IF OrBlock(a, b, 4096) THEN OrStep(a, b, 4096)
    ELSE IF OrBlock(a, b, 256) THEN OrStep(a, b, 256)
    ELSE IF OrBlock(a, b, 16) THEN OrStep(a, b, 16)
    ELSE (IF a % 2 = 1 \/ b % 2 = 1 THEN 1 ELSE 0)
         + 2 * BitOr(a \div 2, b \div 2)

\* a & b for a non-negative mask b: the low block of width w is zero where
\* the mask's is zero, and a's where the mask's is all ones.
RECURSIVE BitAnd(_, _)
AndStep(a, b, w) ==
    (IF b % w = 0 THEN 0 ELSE a % w) + w * BitAnd(a \div w, b \div w)

AndBlock(b, w) == b % w = 0 \/ b % w = w - 1

BitAnd(a, b) ==
    IF a = 0 \/ b = 0 THEN 0
    ELSE IF AndBlock(b, 4096) THEN AndStep(a, b, 4096)
    ELSE IF AndBlock(b, 256) THEN AndStep(a, b, 256)
    ELSE IF AndBlock(b, 16) THEN AndStep(a, b, 16)
    ELSE (IF a % 2 = 1 /\ b % 2 = 1 THEN 1 ELSE 0)
         + 2 * BitAnd(a \div 2, b \div 2)

\* x << n, without wrap (see the note on integers above).
Shl(x, n) == x * (2 ^ n)

\* x >> n on a non-negative x.
Shr(x, n) == x \div (2 ^ n)

\* x & timestamp_mask for 0 <= x < 2^31: the mask clears bits 0..21 and
\* bit 63 and keeps bits 22..62, which hold every higher bit of such an x.
AndTimestampMask(x) == x - (x % (2 ^ timestamp_mask_low))

\* ---------------------------------------------------------------- packing

\* self.last_time_millis << 22 | ((self.machine_bits << 12) as i64)
\*     | (self.idx as i64)
pack(timestamp, machine, sequence) ==
    BitOr(BitOr(Shl(timestamp, TimestampShift), Shl(machine, MachineShift)),
          sequence)

\* The increment of idx reduced modulo twice the capacity.
next_idx_mod_4096(i) == (i + 1) % (2 * SeqModulus)

\* self.idx = (self.idx + 1) % 2048
next_idx(i) == (i + 1) % SeqModulus

\* The Snowflake that reverse returns for a snowflake: u64 below 2^31.
decode(snowflake) ==
    [timestamp    |-> Shr(AndTimestampMask(snowflake), TimestampShift),
     machine_bits |-> Shr(BitAnd(snowflake, ip_mask), MachineShift),
     idx          |-> BitAnd(snowflake, sequence_mask)]

\* ------------------------------------------------------ address and parse

\* A string is a sequence of characters.
Digits == {"0", "1", "2", "3", "4", "5", "6", "7", "8", "9"}

DigitValue(c) ==
    CASE c = "0" -> 0 [] c = "1" -> 1 [] c = "2" -> 2 [] c = "3" -> 3
      [] c = "4" -> 4 [] c = "5" -> 5 [] c = "6" -> 6 [] c = "7" -> 7
      [] c = "8" -> 8 [] c = "9" -> 9

\* ip.split("."): the pieces between the dots, empty pieces included.
RECURSIVE SplitDots(_, _)
SplitDots(s, piece) ==
    IF s = << >> THEN << piece >>
    ELSE IF Head(s) = "." THEN << piece >> \o SplitDots(Tail(s), << >>)
    ELSE SplitDots(Tail(s), Append(piece, Head(s)))

split(ip) == SplitDots(ip, << >>)

\* The value of a string of decimal digits.
RECURSIVE DigitsValue(_, _)
DigitsValue(s, acc) ==
    IF s = << >> THEN acc
    ELSE DigitsValue(Tail(s), 10 * acc + DigitValue(Head(s)))

\* str::parse::<i64>: an optional sign, then one or more decimal digits;
\* anything else is an Err.  (No component of the model overflows i64.)
parse_i64(part) ==
    LET signed == part # << >> /\ Head(part) \in {"-", "+"}
        digits == IF signed THEN Tail(part) ELSE part
    IN  IF digits = << >> \/ \E k \in 1..Len(digits) : digits[k] \notin Digits
        THEN [ok |-> FALSE, value |-> 0]
        ELSE [ok |-> TRUE,
              value |-> IF signed /\ Head(part) = "-"
                        THEN 0 - DigitsValue(digits, 0)
                        ELSE DigitsValue(digits, 0)]

\* Whether new_from_ip(ip) returns: ip_split[2] and ip_split[3] exist (the
\* index does not panic) and numerize unwraps both.
new_from_ip_returns(ip) ==
    /\ Len(split(ip)) >= 4
    /\ parse_i64(split(ip)[3]).ok
    /\ parse_i64(split(ip)[4]).ok

\* numerize(ip_split[2]) << 8 | numerize(ip_split[3])
machine_of(ip) ==
    BitOr(Shl(parse_i64(split(ip)[3]).value, OctetShift),
          parse_i64(split(ip)[4]).value)

\* "102.65.2.123", the address of the tests
Ip_102_65_2_123 == <<"1","0","2",".","6","5",".","2",".","1","2","3">>
\* "10.0.4.0"
Ip_10_0_4_0 == <<"1","0",".","0",".","4",".","0">>
\* "10.0.-3.7"
Ip_10_0_neg3_7 == <<"1","0",".","0",".","-","3",".","7">>
\* "10.0.x.1"
Ip_10_0_x_1 == <<"1","0",".","0",".","x",".","1">>
\* "10.0..1"
Ip_10_0_empty_1 == <<"1","0",".","0",".",".","1">>
\* "10.0.1"
Ip_10_0_1 == <<"1","0",".","0",".","1">>
\* "10.0.1.-"
Ip_10_0_1_dash == <<"1","0",".","0",".","1",".","-">>

\* "102.65.6.123"
Ip_102_65_6_123 == <<"1","0","2",".","6","5",".","6",".","1","2","3">>

\* The addresses of two generators of one process.
PairAddresses == {Ip_102_65_2_123, Ip_102_65_6_123, Ip_10_0_4_0}

\* The addresses new_from_ip is called with.
Addresses ==
    {Ip_102_65_2_123, Ip_10_0_4_0, Ip_10_0_neg3_7, Ip_10_0_x_1,
     Ip_10_0_empty_1, Ip_10_0_1, Ip_10_0_1_dash}

\* ------------------------------------------------------------------ state

VARIABLES
    status,            \* "none": new_from_ip not called yet; "ready": it
                       \* returned a generator; "panicked": it panicked
    ip,                \* the address new_from_ip was called with
    last_time_millis,  \* SnowflakeIdGenerator.last_time_millis
    machine_bits,      \* SnowflakeIdGenerator.machine_bits
    idx,               \* SnowflakeIdGenerator.idx
    clock,             \* the system clock, in milliseconds since the epoch
    pc,                \* "idle", or "biding": a generate or real_time_generate
                       \* call is inside the loop of biding_time_conditions
    op,                \* the operation called last (in progress when biding)
    ret,               \* the i64 returned last
    ret_by,            \* the operation that returned ret ("none": nothing yet)
    decoded,           \* the Snowflake returned by the last reverse
    reads,             \* clock readings taken by the call op, up to MaxReads
    waited,            \* whether the call op entered biding_time_conditions
    \* History kept for the properties; no operation reads it.
    seen,              \* an id the observer picked as it was returned
    seen_at,           \* "never": none picked yet; "now": seen is the id
                       \* returned last; "before": calls have returned since
    run_len,           \* calls completed in the run of calls being counted
    mark_last,         \* last_time_millis when the run began
    mark_idx,          \* idx when the run began
    first_ts,          \* last_time_millis as the first call of the run left it
    held,              \* the clock has not changed since the run began
    \* A second generator of the process.
    other              \* the SnowflakeIdGenerator the calls are not made on,
                       \* with the call in progress on it

gen == << last_time_millis, machine_bits, idx >>
prog == << status, ip, last_time_millis, machine_bits, idx, clock, pc, op,
           ret, ret_by, decoded, reads, waited >>
history == << seen, seen_at, run_len, mark_last, mark_idx, first_ts, held >>
\* What a call on the generator leaves alone.
aside == << history, other >>
vars == << prog, history, other >>

GenOps == {"generate", "real_time_generate", "lazy_generate"}

NoSnowflake == [timestamp |-> 0, machine_bits |-> 0, idx |-> 0]

\* SystemTime::now().duration_since(UNIX_EPOCH).as_millis() as i64
get_time_millis == clock

InitProg ==
    /\ status = "none"
    /\ ip = << >>
    /\ last_time_millis = 0
    /\ machine_bits = 0
    /\ idx = 0
    /\ clock \in 0..MaxClock
    /\ pc = "idle"
    /\ op = "none"
    /\ ret = 0
    /\ ret_by = "none"
    /\ decoded = NoSnowflake
    /\ reads = 0
    /\ waited = FALSE

InitHistory ==
    /\ seen = 0
    /\ seen_at = "never"
    /\ run_len = 0
    /\ mark_last = 0
    /\ mark_idx = 0
    /\ first_ts = 0
    /\ held = TRUE

\* A generator not constructed yet.
NoGenerator ==
    [status |-> "none", ip |-> << >>, last_time_millis |-> 0,
     machine_bits |-> 0, idx |-> 0, pc |-> "idle", op |-> "none", ret |-> 0,
     ret_by |-> "none", decoded |-> NoSnowflake, reads |-> 0,
     waited |-> FALSE]

Init == InitProg /\ InitHistory /\ other = NoGenerator

\* ------------------------------------------------------------- operations

\* new_from_ip(ip): panics, or returns the generator
\* {last_time_millis: get_time_millis(), machine_bits, idx: 0}.
new_from_ip(address) ==
    /\ status = "none"
    /\ ip' = address
    /\ op' = "new_from_ip"
    /\ reads' = 1
    /\ IF new_from_ip_returns(address)
       THEN /\ status' = "ready"
            /\ last_time_millis' = get_time_millis
            /\ machine_bits' = machine_of(address)
            /\ idx' = 0
       ELSE /\ status' = "panicked"
            /\ UNCHANGED gen
    /\ UNCHANGED << clock, pc, ret, ret_by, decoded, waited >>

\* A call returns id from operation o.
Return(o, id) ==
    /\ ret' = id
    /\ ret_by' = o
    /\ decoded' = NoSnowflake
    /\ pc' = "idle"

\* A call enters the loop of biding_time_conditions(self.last_time_millis).
EnterBiding ==
    /\ pc' = "biding"
    /\ waited' = TRUE
    /\ UNCHANGED << last_time_millis, ret, ret_by, decoded >>

\* generate() storing the reading it takes at the wrap without comparing it
\* with last_time_millis: it never waits.
generate_without_wait ==
    /\ status = "ready"
    /\ pc = "idle"
    /\ op' = "generate"
    /\ idx' = next_idx(idx)
    /\ waited' = FALSE
    /\ IF next_idx(idx) = 0
       THEN /\ reads' = 1
            /\ last_time_millis' = get_time_millis
            /\ Return("generate", pack(get_time_millis, machine_bits, 0))
       ELSE /\ reads' = 0
            /\ UNCHANGED last_time_millis
            /\ Return("generate",
                      pack(last_time_millis, machine_bits, next_idx(idx)))
    /\ UNCHANGED << status, ip, machine_bits, clock >>

\* generate() refreshing the timestamp on every call, where the code does
\* so only at the wrap.
generate_refreshing_every_call ==
    /\ status = "ready"
    /\ pc = "idle"
    /\ op' = "generate"
    /\ idx' = next_idx(idx)
    /\ reads' = 1
    /\ IF next_idx(idx) = 0 /\ get_time_millis = last_time_millis
       THEN EnterBiding
       ELSE /\ last_time_millis' = get_time_millis
            /\ waited' = FALSE
            /\ Return("generate",
                      pack(get_time_millis, machine_bits, next_idx(idx)))
    /\ UNCHANGED << status, ip, machine_bits, clock >>

\* generate(): the timestamp is refreshed only when idx wraps to 0.
generate ==
    /\ status = "ready"
    /\ pc = "idle"
    /\ op' = "generate"
    /\ idx' = next_idx(idx)
    /\ IF next_idx(idx) = 0
       THEN /\ reads' = 1
            /\ IF get_time_millis = last_time_millis
               THEN EnterBiding
               ELSE /\ last_time_millis' = get_time_millis
                    /\ waited' = FALSE
                    /\ Return("generate",
                              pack(get_time_millis, machine_bits, 0))
       ELSE /\ reads' = 0
            /\ waited' = FALSE
            /\ UNCHANGED last_time_millis
            /\ Return("generate",
                      pack(last_time_millis, machine_bits, next_idx(idx)))
    /\ UNCHANGED << status, ip, machine_bits, clock >>

\* real_time_generate() refreshing the timestamp as generate() does, only
\* when idx wraps to 0: between wraps the reading is dropped.
real_time_generate_refreshing_at_wrap ==
    /\ status = "ready"
    /\ pc = "idle"
    /\ op' = "real_time_generate"
    /\ reads' = 1
    /\ idx' = next_idx(idx)
    /\ IF next_idx(idx) = 0
       THEN IF get_time_millis = last_time_millis
            THEN EnterBiding
            ELSE /\ last_time_millis' = get_time_millis
                 /\ waited' = FALSE
                 /\ Return("real_time_generate",
                           pack(get_time_millis, machine_bits, 0))
       ELSE /\ waited' = FALSE
            /\ UNCHANGED last_time_millis
            /\ Return("real_time_generate",
                      pack(last_time_millis, machine_bits, next_idx(idx)))
    /\ UNCHANGED << status, ip, machine_bits, clock >>

\* real_time_generate() entering the wait on every reading equal to
\* last_time_millis, whether or not idx has wrapped.
real_time_generate_waiting_every_call ==
    /\ status = "ready"
    /\ pc = "idle"
    /\ op' = "real_time_generate"
    /\ reads' = 1
    /\ IF get_time_millis = last_time_millis
       THEN /\ idx' = next_idx(idx)
            /\ EnterBiding
       ELSE /\ last_time_millis' = get_time_millis
            /\ idx' = 0
            /\ waited' = FALSE
            /\ Return("real_time_generate",
                      pack(get_time_millis, machine_bits, 0))
    /\ UNCHANGED << status, ip, machine_bits, clock >>

\* real_time_generate() keeping the incremented idx when the reading differs
\* from last_time_millis, where the code sets idx to 0.
real_time_generate_keeping_idx ==
    /\ status = "ready"
    /\ pc = "idle"
    /\ op' = "real_time_generate"
    /\ reads' = 1
    /\ idx' = next_idx(idx)
    /\ IF get_time_millis = last_time_millis
       THEN IF next_idx(idx) = 0
            THEN EnterBiding
            ELSE /\ waited' = FALSE
                 /\ UNCHANGED last_time_millis
                 /\ Return("real_time_generate",
                           pack(last_time_millis, machine_bits,
                                next_idx(idx)))
       ELSE /\ last_time_millis' = get_time_millis
            /\ waited' = FALSE
            /\ Return("real_time_generate",
                      pack(get_time_millis, machine_bits, next_idx(idx)))
    /\ UNCHANGED << status, ip, machine_bits, clock >>

\* real_time_generate(): the clock is read on every call.
real_time_generate ==
    /\ status = "ready"
    /\ pc = "idle"
    /\ op' = "real_time_generate"
    /\ reads' = 1
    /\ IF get_time_millis = last_time_millis
       THEN /\ idx' = next_idx(idx)
            /\ IF next_idx(idx) = 0
               THEN EnterBiding
               ELSE /\ waited' = FALSE
                    /\ UNCHANGED last_time_millis
                    /\ Return("real_time_generate",
                              pack(last_time_millis, machine_bits,
                                   next_idx(idx)))
       ELSE /\ last_time_millis' = get_time_millis
            /\ idx' = 0
            /\ waited' = FALSE
            /\ Return("real_time_generate",
                      pack(get_time_millis, machine_bits, 0))
    /\ UNCHANGED << status, ip, machine_bits, clock >>

\* The loop of biding_time_conditions ending on a reading that is not below
\* last_time_millis.
biding_time_conditions_returning_equal ==
    /\ status = "ready"
    /\ pc = "biding"
    /\ reads' = IF reads < MaxReads THEN reads + 1 ELSE reads
    /\ IF get_time_millis >= last_time_millis
       THEN /\ last_time_millis' = get_time_millis
            /\ Return(op, pack(get_time_millis, machine_bits, idx))
       ELSE UNCHANGED << last_time_millis, ret, ret_by, decoded, pc >>
    /\ UNCHANGED << status, ip, machine_bits, idx, clock, op, waited >>

\* One iteration of the loop of biding_time_conditions(last_time_millis):
\* a reading above last_time_millis ends the loop, the caller stores it and
\* returns the packed id; any other reading spins.
biding_time_conditions ==
    /\ status = "ready"
    /\ pc = "biding"
    /\ reads' = IF reads < MaxReads THEN reads + 1 ELSE reads
    /\ IF get_time_millis > last_time_millis
       THEN /\ last_time_millis' = get_time_millis
            /\ Return(op, pack(get_time_millis, machine_bits, idx))
       ELSE UNCHANGED << last_time_millis, ret, ret_by, decoded, pc >>
    /\ UNCHANGED << status, ip, machine_bits, idx, clock, op, waited >>

\* The timestamp of lazy_generate() without the push at the wrap.
lazy_timestamp_stale(last, i) == last

\* lazy_generate(): the timestamp is pushed by one when idx wraps to 0.
lazy_timestamp(last, i) == IF i = 0 THEN last + 1 ELSE last

lazy_generate ==
    /\ status = "ready"
    /\ pc = "idle"
    /\ op' = "lazy_generate"
    /\ reads' = 0
    /\ waited' = FALSE
    /\ idx' = next_idx(idx)
    /\ last_time_millis' = lazy_timestamp(last_time_millis, next_idx(idx))
    /\ Return("lazy_generate",
              pack(lazy_timestamp(last_time_millis, next_idx(idx)),
                   machine_bits, next_idx(idx)))
    /\ UNCHANGED << status, ip, machine_bits, clock >>

\* generate_with_unix(timestamp) packing self.idx, as the generating
\* operations do, where the code packs 0.
generate_with_unix_packing_idx(timestamp) ==
    /\ status = "ready"
    /\ pc = "idle"
    /\ op' = "generate_with_unix"
    /\ reads' = 0
    /\ waited' = FALSE
    /\ Return("generate_with_unix", pack(timestamp, machine_bits, idx))
    /\ UNCHANGED << status, ip, gen, clock >>

\* generate_with_unix(timestamp)
generate_with_unix(timestamp) ==
    /\ status = "ready"
    /\ pc = "idle"
    /\ op' = "generate_with_unix"
    /\ reads' = 0
    /\ waited' = FALSE
    /\ Return("generate_with_unix", pack(timestamp, machine_bits, 0))
    /\ UNCHANGED << status, ip, gen, clock >>

\* reverse(snowflake)
reverse(snowflake) ==
    /\ status = "ready"
    /\ pc = "idle"
    /\ op' = "reverse"
    /\ reads' = 0
    /\ waited' = FALSE
    /\ decoded' = decode(snowflake)
    /\ UNCHANGED << status, ip, gen, clock, pc, ret, ret_by >>

\* The timestamps generate_with_unix is called with.
UnixInputs == {0, MaxClock}

\* reverse is called with the id returned last, as the tests do (id as u64;
\* a negative id is a u64 above 2^63, outside the range of the model).
ReverseInputs == IF ret_by # "none" /\ ret >= 0 THEN {ret} ELSE {}

\* ------------------------------------------------------------------ clock

\* The clock advances by a millisecond.
Tick ==
    /\ clock < MaxClock
    /\ clock' = clock + 1
    /\ UNCHANGED << status, ip, gen, pc, op, ret, ret_by, decoded, reads,
                    waited >>

\* The clock is set back (adjusted by the operator or by time
\* synchronisation): SystemTime is not monotonic.
StepBack ==
    /\ \E earlier \in 0..(clock - 1) : clock' = earlier
    /\ UNCHANGED << status, ip, gen, pc, op, ret, ret_by, decoded, reads,
                    waited >>

\* ---------------------------------------------------------- specification

\* Any address, any order of calls, a clock that may go either way.
Next ==
    \/ (\E address \in Addresses : new_from_ip(address)) /\ UNCHANGED aside
    \/ generate /\ UNCHANGED aside
    \/ real_time_generate /\ UNCHANGED aside
    \/ lazy_generate /\ last_time_millis' <= MaxTime /\ UNCHANGED aside
    \/ biding_time_conditions /\ UNCHANGED aside
    \/ (\E timestamp \in UnixInputs : generate_with_unix(timestamp))
       /\ UNCHANGED aside
    \/ (\E snowflake \in ReverseInputs : reverse(snowflake))
       /\ UNCHANGED aside
    \/ Tick /\ UNCHANGED aside
    \/ StepBack /\ UNCHANGED aside

Spec == Init /\ [][Next]_vars

\* ------------------------------------------------ the wait, running on

\* The generating operations and a clock that may go either way, with the
\* thread of a call that is inside the loop of biding_time_conditions
\* running on: the loop keeps taking iterations.  Nothing is assumed of the
\* clock.
NextWait ==
    \/ (\E address \in Addresses : new_from_ip(address)) /\ UNCHANGED aside
    \/ generate /\ UNCHANGED aside
    \/ real_time_generate /\ UNCHANGED aside
    \/ lazy_generate /\ last_time_millis' <= MaxTime /\ UNCHANGED aside
    \/ biding_time_conditions /\ UNCHANGED aside
    \/ Tick /\ UNCHANGED aside
    \/ StepBack /\ UNCHANGED aside

SpecWait ==
    /\ Init
    /\ [][NextWait]_vars
    /\ WF_vars(biding_time_conditions /\ UNCHANGED aside)

\* ------------------------------------------- one strategy, observed ids

\* A fresh generator, calls of one strategy only (the strategy of the first
\* call), a clock that only advances; an observer remembers one of the ids
\* returned, to compare it with the ids returned later.

OnlyStrategy(o) == op \in {"new_from_ip", o}

\* The observer picks the id returned last.
Observe ==
    /\ status = "ready"
    /\ pc = "idle"
    /\ ret_by \in GenOps
    /\ seen_at = "never"
    /\ idx <= MaxObservedIdx
    /\ seen' = ret
    /\ seen_at' = "now"
    /\ UNCHANGED << prog, run_len, mark_last, mark_idx, first_ts, held,
                    other >>

\* A call returns after the observer picked: the picked id is an earlier one.
AgeSeen ==
    /\ seen_at' = IF seen_at = "now" /\ pc' = "idle" THEN "before" ELSE seen_at
    /\ UNCHANGED << seen, run_len, mark_last, mark_idx, first_ts, held,
                    other >>

NextUnique ==
    \/ (\E address \in Addresses : new_from_ip(address)) /\ UNCHANGED aside
    \/ OnlyStrategy("generate") /\ generate /\ AgeSeen
    \/ OnlyStrategy("real_time_generate") /\ real_time_generate /\ AgeSeen
    \/ /\ OnlyStrategy("lazy_generate")
       /\ lazy_generate
       /\ last_time_millis' <= MaxTime
       /\ AgeSeen
    \/ biding_time_conditions /\ AgeSeen
    \/ Observe
    \/ Tick /\ UNCHANGED aside

SpecUnique == Init /\ [][NextUnique]_vars

\* ---------------------------------------- mixed strategies, observed ids

\* A fresh generator, calls of the three strategies in any order, a clock
\* that only advances, and the same observer.
NextMixed ==
    \/ (\E address \in Addresses : new_from_ip(address)) /\ UNCHANGED aside
    \/ generate /\ AgeSeen
    \/ real_time_generate /\ AgeSeen
    \/ lazy_generate /\ last_time_millis' <= MaxTime /\ AgeSeen
    \/ biding_time_conditions /\ AgeSeen
    \/ Observe
    \/ Tick /\ UNCHANGED aside

SpecMixed == Init /\ [][NextMixed]_vars

\* ------------------------------------------------------- two generators

\* Two generators built by new_from_ip in one process, each a value of its
\* own that shares nothing with the other but the clock.  The calls go to
\* one of them; Switch makes the following calls go to the other one.
Switch ==
    /\ other' = [status |-> status, ip |-> ip,
                 last_time_millis |-> last_time_millis,
                 machine_bits |-> machine_bits, idx |-> idx, pc |-> pc,
                 op |-> op, ret |-> ret, ret_by |-> ret_by,
                 decoded |-> decoded, reads |-> reads, waited |-> waited]
    /\ status' = other.status
    /\ ip' = other.ip
    /\ last_time_millis' = other.last_time_millis
    /\ machine_bits' = other.machine_bits
    /\ idx' = other.idx
    /\ pc' = other.pc
    /\ op' = other.op
    /\ ret' = other.ret
    /\ ret_by' = other.ret_by
    /\ decoded' = other.decoded
    /\ reads' = other.reads
    /\ waited' = other.waited
    /\ UNCHANGED << clock, history >>

\* The first calls of each generator, in any order, whatever the clock shows.
NextPair ==
    \/ (\E address \in PairAddresses : new_from_ip(address))
       /\ UNCHANGED aside
    \/ idx < MaxPairIdx /\ generate /\ UNCHANGED aside
    \/ idx < MaxPairIdx /\ real_time_generate
       /\ UNCHANGED aside
    \/ idx < MaxPairIdx /\ lazy_generate /\ UNCHANGED aside
    \/ Switch
    \/ Tick /\ UNCHANGED aside
    \/ StepBack /\ UNCHANGED aside

SpecPair == Init /\ [][NextPair]_vars

\* --------------------------------------------- a counted burst of generate

\* A fresh generator and calls of generate only, counted; held records
\* whether the clock stayed at its reading of the construction until the
\* call number SeqModulus had read it.

CountCall ==
    /\ run_len' = IF pc' = "idle" THEN run_len + 1 ELSE run_len
    /\ first_ts' = IF pc' = "idle" /\ run_len = 0
                   THEN last_time_millis' ELSE first_ts
    /\ UNCHANGED << seen, seen_at, mark_last, mark_idx, held, other >>

ClockMoves ==
    /\ held' = (held /\ (pc = "biding" \/ run_len >= SeqModulus))
    /\ UNCHANGED << seen, seen_at, run_len, mark_last, mark_idx, first_ts,
                    other >>

NextBurst ==
    \/ (\E address \in Addresses : new_from_ip(address)) /\ UNCHANGED aside
    \/ run_len < SeqModulus + BurstSlack /\ generate /\ CountCall
    \/ biding_time_conditions /\ CountCall
    \/ Tick /\ ClockMoves
    \/ StepBack /\ ClockMoves

SpecBurst == Init /\ [][NextBurst]_vars

\* ----------------------------------------- a counted run of lazy_generate

\* After a few calls of the other strategies, calls of lazy_generate only,
\* counted from the state (mark_last, mark_idx) the first of them found;
\* the clock moves either way meanwhile.

CountLazy ==
    /\ run_len' = run_len + 1
    /\ mark_last' = IF run_len = 0 THEN last_time_millis ELSE mark_last
    /\ mark_idx' = IF run_len = 0 THEN idx ELSE mark_idx
    /\ UNCHANGED << seen, seen_at, first_ts, held, other >>

Prefix == run_len = 0 /\ idx < MaxPrefix

NextLazy ==
    \/ (\E address \in Addresses : new_from_ip(address)) /\ UNCHANGED aside
    \/ Prefix /\ generate /\ UNCHANGED aside
    \/ Prefix /\ real_time_generate /\ UNCHANGED aside
    \/ run_len < MaxWraps * SeqModulus /\ lazy_generate /\ CountLazy
    \/ Tick /\ UNCHANGED aside
    \/ StepBack /\ UNCHANGED aside

SpecLazy == Init /\ [][NextLazy]_vars

\* ------------------------------------------------- vocabulary of the claims

PureOps == {"generate_with_unix", "reverse"}

\* A non-empty string of decimal digits: a non-negative integer as written.
IsNonNegativeInteger(part) ==
    /\ part # << >>
    /\ \A k \in 1..Len(part) : part[k] \in Digits

\* The address has four components, the third and fourth non-negative
\* integers.
WellFormed(address) ==
    /\ Len(split(address)) >= 4
    /\ IsNonNegativeInteger(split(address)[3])
    /\ IsNonNegativeInteger(split(address)[4])

\* The third and fourth components are octets, in [0, 255].
OctetsInRange(address) ==
    /\ WellFormed(address)
    /\ DigitsValue(split(address)[3], 0) \in 0..255
    /\ DigitsValue(split(address)[4], 0) \in 0..255

\* The step is a call of operation o that returns at once, or the return of
\* a call of o from its wait.
Returns(o) ==
    /\ status = "ready"
    /\ op' = o
    /\ pc' = "idle"
    /\ \/ pc = "biding"
       \/ << last_time_millis, idx >>' # << last_time_millis, idx >>

\* The step is a call of operation o that enters the wait.
Blocks(o) ==
    /\ pc = "idle"
    /\ pc' = "biding"
    /\ op' = o

\* ------------------------------------------------------------------ claims

\* C2: for every id returned by generate, real_time_generate or
\* lazy_generate on a generator built from octets in [0, 255], reverse(id)
\* is the generator's state after the call: timestamp = last_time_millis,
\* machine_bits = machine_bits, idx = idx.
C2_RoundTrip ==
    (/\ op = "reverse"
     /\ ret_by \in GenOps
     /\ OctetsInRange(ip))
    => decoded = [timestamp    |-> last_time_millis,
                  machine_bits |-> machine_bits,
                  idx          |-> idx]

\* C3: across calls of generate and real_time_generate, whatever the clock
\* shows, last_time_millis never decreases.
C3_Monotonic ==
    [][(status = "ready" /\ op' \in {"generate", "real_time_generate"})
       => last_time_millis' >= last_time_millis]_vars

\* C4: when generate refreshes the timestamp (idx has just wrapped to 0),
\* the value it stores into last_time_millis is strictly greater than the
\* value it replaces, whatever the clock shows.
C4_RefreshAdvances ==
    [][(Returns("generate") /\ idx' = 0)
       => last_time_millis' > last_time_millis]_vars

C8_FirstId ==
    [][/\ (status = "none" /\ status' = "ready" /\ OctetsInRange(ip'))
          => /\ idx' = 0
             /\ last_time_millis' = get_time_millis
             /\ machine_bits' = 256 * DigitsValue(split(ip')[3], 0)
                                + DigitsValue(split(ip')[4], 0)
       /\ (/\ status = "ready"
           /\ OctetsInRange(ip)
           /\ op = "new_from_ip"
           /\ op' = "generate")
          => /\ decode(ret').idx = 1
             /\ decode(ret').machine_bits = machine_bits
      ]_vars

\* C9: generate_with_unix and reverse leave last_time_millis, machine_bits
\* and idx as they are, and generate_with_unix(ts) returns the packing of
\* ts, machine_bits and sequence 0.
C9_PureOperations ==
    [][op' \in PureOps
       => /\ gen' = gen
          /\ op' = "generate_with_unix"
             => /\ ret_by' = "generate_with_unix"
                /\ \E ts \in UnixInputs :
                      ret' = BitOr(BitOr(ts * 4194304, machine_bits * 4096), 0)
      ]_vars

\* C9 witness: after generation calls have moved idx and the timestamp,
\* generate_with_unix and then reverse were called.
C9_Witness ==
    /\ op = "reverse"
    /\ ret_by = "generate_with_unix"
    /\ idx > 1
    /\ last_time_millis > 0
    /\ ret = pack(0, machine_bits, 0)

\* C10: new_from_ip produces a generator exactly when the address has four
\* components of which the third and fourth are non-negative integers, and
\* fails for every other address.
C10_ConstructionFailure ==
    status # "none" => (status = "ready" <=> WellFormed(ip))

\* C1: on a fresh generator built from octets in [0, 255], with a clock that
\* never goes back, the ids returned by consecutive calls of one strategy
\* are pairwise distinct: an id returned by a later call differs from the
\* id the observer picked.
C1_Unique ==
    (seen_at = "before" /\ OctetsInRange(ip)) => ret # seen

C6_LazyDeterminism ==
    /\ (run_len > 0 /\ run_len % SeqModulus = 0)
       => /\ last_time_millis = mark_last + (run_len \div SeqModulus)
          /\ idx = mark_idx
    /\ op = "lazy_generate" => (reads = 0 /\ ~waited)

\* C6 witness: two wraps of a run that began at idx 1 and timestamp 1, the
\* clock since set back to 0.
C6_Witness ==
    /\ run_len = 2 * SeqModulus
    /\ mark_idx = 1
    /\ mark_last = 1
    /\ last_time_millis = 3
    /\ clock = 0

\* C11: the wait is entered only by generate and real_time_generate, only
\* in a call where idx has just wrapped to 0 and the clock reading equals the
\* stored last_time_millis; lazy_generate, generate_with_unix and reverse
\* never enter it, and a call that leaves idx # 0 does not block.
C11_BlockingOnlyOnExhaustion ==
    [][/\ (pc = "idle" /\ pc' = "biding")
          => /\ op' \in {"generate", "real_time_generate"}
             /\ next_idx(idx) = 0
             /\ idx' = 0
             /\ get_time_millis = last_time_millis
       /\ op' \in {"lazy_generate", "generate_with_unix", "reverse"}
          => (pc' = "idle" /\ ~waited')
       /\ (pc = "idle" /\ idx' # 0) => pc' = "idle"
      ]_vars

\* C11 witness: a generate call is inside the wait, idx wrapped to 0 and the
\* clock at the stored timestamp.
C11_Witness ==
    /\ pc = "biding"
    /\ op = "generate"
    /\ waited
    /\ idx = 0
    /\ clock = last_time_millis

\* C12: biding_time_conditions(floor) returns only a clock reading strictly
\* greater than floor (floor is last_time_millis, which the caller sets to
\* the reading returned); if the clock from some time on shows values above
\* floor, a call waiting on floor returns; and if the clock never shows a
\* value above floor, the call stays in the wait for ever.
C12_ClockWait ==
    /\ [][(pc = "biding" /\ pc' = "idle")
          => /\ get_time_millis > last_time_millis
             /\ last_time_millis' = get_time_millis
             /\ ret' = pack(get_time_millis, machine_bits, idx)]_vars
    /\ \A floor \in 0..MaxClock :
          (<>[](clock > floor))
          => [](pc = "biding" /\ last_time_millis = floor => <>(pc = "idle"))
    /\ \A floor \in 0..MaxClock :
          [](pc = "biding" /\ last_time_millis = floor /\ [](clock <= floor)
             => [](pc = "biding"))

\* C12 witness: a call spun in the wait on floor 0 for several readings and
\* returned with a later one.
C12_Witness ==
    /\ pc = "idle"
    /\ waited
    /\ reads = MaxReads
    /\ op \in {"generate", "real_time_generate"}
    /\ ret_by = op
    /\ last_time_millis = clock
    /\ clock > 0
    /\ ret = pack(clock, machine_bits, 0)

\* C13: a generate call whose incremented idx is not 0 takes no clock
\* reading and leaves last_time_millis as it is, packing the stored value;
\* generate changes last_time_millis only in a call where idx wraps to 0.
C13_RefreshOnlyAtWrap ==
    [][(status = "ready" /\ op' = "generate")
       => /\ (pc = "idle" /\ idx' # 0)
             => /\ reads' = 0
                /\ last_time_millis' = last_time_millis
                /\ ret' = pack(last_time_millis, machine_bits, idx')
          /\ last_time_millis' # last_time_millis => idx' = 0
      ]_vars

\* C13 witness: generate returned, between wraps, an id whose timestamp is
\* older than the clock.
C13_Witness ==
    /\ op = "generate"
    /\ ret_by = "generate"
    /\ pc = "idle"
    /\ idx > 1
    /\ reads = 0
    /\ last_time_millis < clock
    /\ ret = pack(last_time_millis, machine_bits, idx)

\* C14: a real_time_generate call whose clock reading differs from the
\* stored last_time_millis stores the reading, sets idx to 0 and returns the
\* id of that reading with sequence 0, whatever idx was; a call whose reading
\* equals the stored value and whose incremented idx is not 0 leaves
\* last_time_millis as it is and returns the id with the incremented idx.
C14_RealTimeReset ==
    [][(status = "ready" /\ pc = "idle" /\ op' = "real_time_generate"
        /\ << idx, last_time_millis >>' # << idx, last_time_millis >>)
       => /\ get_time_millis # last_time_millis
             => /\ last_time_millis' = get_time_millis
                /\ idx' = 0
                /\ pc' = "idle"
                /\ ret' = pack(get_time_millis, machine_bits, 0)
                /\ ret' % SeqModulus = 0
          /\ (get_time_millis = last_time_millis /\ next_idx(idx) # 0)
             => /\ last_time_millis' = last_time_millis
                /\ idx' = idx + 1
                /\ pc' = "idle"
                /\ ret' = pack(last_time_millis, machine_bits, idx + 1)
                /\ ret' % SeqModulus = idx + 1
      ]_vars

\* C14 witness: real_time_generate found a new millisecond and returned the
\* id of sequence 0 without waiting.
C14_Witness ==
    /\ op = "real_time_generate"
    /\ ret_by = "real_time_generate"
    /\ pc = "idle"
    /\ ~waited
    /\ idx = 0
    /\ last_time_millis = clock
    /\ clock > 0
    /\ ret = pack(clock, machine_bits, 0)

\* C15: on a generator built from octets in [0, 255], generate_with_unix(T)
\* called after an id was issued returns a value less than or equal to that
\* id if the id was issued with last_time_millis >= T, and strictly greater
\* than it if the id was issued with last_time_millis < T.
C15_RangeBoundary ==
    [][(/\ status = "ready"
        /\ OctetsInRange(ip)
        /\ ret_by \in GenOps
        /\ ret_by' = "generate_with_unix")
       => \A T \in UnixInputs :
             ret' = pack(T, machine_bits, 0)
             => /\ last_time_millis >= T => ret' <= ret
                /\ last_time_millis < T => ret' > ret
      ]_vars

\* C16: once the generator is constructed, and whatever calls of generate,
\* real_time_generate, lazy_generate, generate_with_unix and reverse follow,
\* idx is in [0, 2048) (so idx + 1 is at most 2048, far below 2^16) and
\* machine_bits is the value new_from_ip computed from the address.
C16_StateInvariant ==
    status = "ready"
    => /\ idx \in 0..(SeqModulus - 1)
       /\ idx + 1 < 65536
       /\ machine_bits = machine_of(ip)

\* C16 witness: generation calls have brought idx to the top of its range,
\* and generate_with_unix and reverse have been called since.
C16_Witness ==
    /\ status = "ready"
    /\ op = "reverse"
    /\ ret_by = "generate_with_unix"
    /\ idx = SeqModulus - 1
    /\ machine_bits = 1024

\* C17: on a fresh generator whose machine id fits the 10 bits below the
\* timestamp, with a clock that never goes back, calls of generate,
\* real_time_generate and lazy_generate in any order never return the same
\* packed value twice: an id returned by a later call differs from the id
\* the observer picked.
C17_MixedUnique ==
    (seen_at = "before" /\ machine_bits \in 0..1023) => ret # seen

\* C19: on a fresh generator built from octets in [0, 255], with a clock
\* that never goes back, each id returned by a call of one strategy is
\* strictly greater than the id returned by the call before it.
C19_Sortable ==
    [][(/\ status = "ready"
        /\ OctetsInRange(ip)
        /\ ret_by \in GenOps
        /\ pc' = "idle"
        /\ \/ pc = "biding"
           \/ << last_time_millis, idx >>' # << last_time_millis, idx >>)
       => ret' > ret
      ]_vars

\* The (third, fourth) octet pair of an address.
OctetPair(address) ==
    << DigitsValue(split(address)[3], 0), DigitsValue(split(address)[4], 0) >>

\* C18: two generators built by new_from_ip from addresses with octets in
\* [0, 255] whose (third, fourth) octet pairs differ never return the same
\* packed value, in whatever order they are called and whatever the clock
\* shows: the id one returned last differs from the id the other returned
\* last.
C18_MachinesUnique ==
    (/\ status = "ready"
     /\ other.status = "ready"
     /\ OctetsInRange(ip)
     /\ OctetsInRange(other.ip)
     /\ OctetPair(ip) # OctetPair(other.ip)
     /\ ret_by \in GenOps
     /\ other.ret_by \in GenOps)
    => ret # other.ret

====
